---- MODULE Spec2Model ----
(***************************************************************************)
(* Maxwell's demon simulations of the repository, as a state machine.      *)
(*                                                                         *)
(* Fixed-point representation of the floating-point quantities:            *)
(*   - a position is counted in units of 0.0001 (x = 1.0 is 10000),        *)
(*   - a velocity is counted in units of 0.01   (velocity 3.0 is 300),     *)
(*   - an energy is counted in units of 0.000001 (ln 2 is 693147).         *)
(* With these units  x += velocity * 0.01  adds the velocity count to the  *)
(* position count, and  x += velocity  adds 100 times the velocity count.  *)
(***************************************************************************)
EXTENDS Integers, Sequences, FiniteSets, TLC

VARIABLES
    variant,        \* which of the six scripts is running
    demon,          \* the arguments of the constructor: n_particles, cut_velocity
    particles,      \* the particle list: records x, y, velocity_x, velocity_y,
                    \* cut_velocity, processed
    memory_bits,    \* the demon's memory: a list of True
    bit_history,    \* energy script: recorded bit counts
    energy_cost,    \* energy script: recorded energies
    trapdoor_open,  \* value of the local trapdoor_open at the end of the last update
    frame,          \* number of update calls made so far
    start,          \* history: the particle list after construction
    prev,           \* history: particles, memory_bits and plot data before the last update
    log,            \* history: per particle, what the gate did in the last update
    visit           \* history: per particle, the current stay inside the barrier zone

vars == <<variant, demon, particles, memory_bits, bit_history, energy_cost,
          trapdoor_open, frame, start, prev, log, visit>>

----------------------------------------------------------------------------
(* Bounds of the model *)

MaxParticles == 2
MaxFrames == 12
MaxVisit == 3

----------------------------------------------------------------------------
(* Program constants, in the fixed-point units above *)

Lx == 20000
Ly == 10000
ZoneLo == 9500
ZoneHi == 10500
Divider == 10000
cut_velocity == 200
landauer_constant == 693147

Abs(v) == IF v < 0 THEN -v ELSE v
Min(a, b) == IF a < b THEN a ELSE b

\* mutant: the zone with its two end points
InZone_closed(x) == ZoneLo <= x /\ x <= ZoneHi

InZone(x) == ZoneLo < x /\ x < ZoneHi

----------------------------------------------------------------------------
(* Particle of Maxwell_Demon_POO_2D_energy.py *)

\* mutant: the speed along both axes is compared with the threshold
is_fast_both_axes(p) == Abs(p.velocity_x) + Abs(p.velocity_y) > p.cut_velocity

is_fast(p) == Abs(p.velocity_x) > p.cut_velocity

\* mutant: reflection at the walls without clamping the position
move_x_unclamped(p) ==
    LET x1 == p.x + p.velocity_x
    IN  IF x1 < 0 \/ x1 > Lx THEN [p EXCEPT !.x = x1, !.velocity_x = -p.velocity_x]
        ELSE [p EXCEPT !.x = x1]

\* mutant: the time step is 0.02 instead of 0.01
move_x_double_step(p) ==
    LET x1 == p.x + 2 * p.velocity_x
    IN  IF x1 < 0 THEN [p EXCEPT !.x = 0, !.velocity_x = -p.velocity_x]
        ELSE IF x1 > Lx THEN [p EXCEPT !.x = Lx, !.velocity_x = -p.velocity_x]
        ELSE [p EXCEPT !.x = x1]

\* the x-axis part of Particle.move: advance, then clamp and reflect
move_x(p) ==
    LET x1 == p.x + p.velocity_x
    IN  IF x1 < 0 THEN [p EXCEPT !.x = 0, !.velocity_x = -p.velocity_x]
        ELSE IF x1 > Lx THEN [p EXCEPT !.x = Lx, !.velocity_x = -p.velocity_x]
        ELSE [p EXCEPT !.x = x1]

\* the y-axis part of Particle.move
move_y(p) ==
    LET y1 == p.y + p.velocity_y
    IN  IF y1 < -Ly THEN [p EXCEPT !.y = -Ly, !.velocity_y = -p.velocity_y]
        ELSE IF y1 > Ly THEN [p EXCEPT !.y = Ly, !.velocity_y = -p.velocity_y]
        ELSE [p EXCEPT !.y = y1]

\* mutant: the processed flag is never reset
reset_processed_never(p) == p

\* the reset of the processed flag at the end of Particle.move
reset_processed(p) ==
    IF ~InZone(p.x) THEN [p EXCEPT !.processed = FALSE] ELSE p

move_energy(p) == reset_processed(move_y(move_x(p)))

\* mutant: the gate without the processed test
judges_energy_every_frame(p) == InZone(p.x)

\* does the gate of the energy script judge the (moved) particle?
judges_energy(p) == InZone(p.x) /\ ~p.processed

\* mutant: the fast branch lets through to the right and bounces to the left
gate_energy_fast_swapped(p) ==
    LET q == [p EXCEPT !.processed = TRUE]
    IN  IF is_fast(q)
        THEN IF q.velocity_x > 0
             THEN [p |-> q, bit |-> TRUE]
             ELSE [p |-> [q EXCEPT !.velocity_x = -q.velocity_x], bit |-> FALSE]
        ELSE IF q.velocity_x > 0
             THEN [p |-> q, bit |-> TRUE]
             ELSE [p |-> [q EXCEPT !.velocity_x = -q.velocity_x], bit |-> FALSE]

\* mutant: the slow branch lets through to the left and bounces to the right
gate_energy_slow_swapped(p) ==
    LET q == [p EXCEPT !.processed = TRUE]
    IN  IF is_fast(q)
        THEN IF q.velocity_x > 0
             THEN [p |-> [q EXCEPT !.velocity_x = -q.velocity_x], bit |-> FALSE]
             ELSE [p |-> q, bit |-> TRUE]
        ELSE IF q.velocity_x > 0
             THEN [p |-> [q EXCEPT !.velocity_x = -q.velocity_x], bit |-> FALSE]
             ELSE [p |-> q, bit |-> TRUE]

\* mutant: a bounce at the gate takes half of the particle's speed
gate_energy_bounce_slows(p) ==
    LET q == [p EXCEPT !.processed = TRUE]
    IN  IF is_fast(q)
        THEN IF q.velocity_x > 0
             THEN [p |-> [q EXCEPT !.velocity_x = -(q.velocity_x \div 2)], bit |-> FALSE]
             ELSE [p |-> q, bit |-> TRUE]
        ELSE IF q.velocity_x > 0
             THEN [p |-> q, bit |-> TRUE]
             ELSE [p |-> [q EXCEPT !.velocity_x = -q.velocity_x], bit |-> FALSE]

\* the body of the gate: returns the particle and whether a bit is appended
gate_energy(p) ==
    LET q == [p EXCEPT !.processed = TRUE]
    IN  IF is_fast(q)
        THEN IF q.velocity_x > 0
             THEN [p |-> [q EXCEPT !.velocity_x = -q.velocity_x], bit |-> FALSE]
             ELSE [p |-> q, bit |-> TRUE]
        ELSE IF q.velocity_x > 0
             THEN [p |-> q, bit |-> TRUE]
             ELSE [p |-> [q EXCEPT !.velocity_x = -q.velocity_x], bit |-> FALSE]

\* the part of an iteration after particle.move(): the gate, for the moved
\* particle m
judge_energy(m) ==
    IF judges_energy(m)
    THEN LET g == gate_energy(m)
         IN  [p |-> g.p, judged |-> TRUE, bit |-> g.bit,
              bounced |-> ~g.bit]
    ELSE [p |-> m, judged |-> FALSE, bit |-> FALSE, bounced |-> FALSE]

\* one iteration of the for loop of update: move, then judge
step_energy(p) == judge_energy(move_energy(p))

----------------------------------------------------------------------------
(* History of a stay inside the barrier zone *)

NoVisit == [len |-> 0, judged |-> 0, bits |-> 0, passed |-> FALSE,
            bouncedFast |-> FALSE, crossed |-> FALSE, done |-> FALSE]

\* v: the record before the step; x0, x1: x before and after the step;
\* r: the result of the loop iteration for the particle
NextVisit(v, x0, r) ==
    LET base  == IF v.done THEN NoVisit ELSE v
        x1    == r.p.x
        cross == (x0 < Divider) # (x1 < Divider)
    IN  IF InZone(x1)
        THEN [len |-> Min(base.len + 1, MaxVisit),
              judged |-> Min(base.judged + (IF r.judged THEN 1 ELSE 0), MaxVisit),
              bits |-> Min(base.bits + (IF r.bit THEN 1 ELSE 0), MaxVisit),
              passed |-> base.passed \/ r.bit,
              bouncedFast |-> base.bouncedFast \/ (r.bounced /\ is_fast(r.p)),
              crossed |-> base.crossed \/ cross,
              done |-> FALSE]
        ELSE IF base.len > 0 \/ InZone(x0)
        THEN [base EXCEPT !.crossed = base.crossed \/ cross, !.done = TRUE]
        ELSE NoVisit

----------------------------------------------------------------------------
(* The other five scripts: one iteration of the for loop of update *)

\* the gate shared by Maxwell_Demon_POO_2D.py and Maxwell_Demon_POO.py:
\* no processed flag, and elif branches that leave velocity 0 alone
gate_POO(p) ==
    IF is_fast(p)
    THEN IF p.velocity_x > 0
         THEN [p |-> [p EXCEPT !.velocity_x = -p.velocity_x], bit |-> FALSE, bounced |-> TRUE]
         ELSE IF p.velocity_x < 0
         THEN [p |-> p, bit |-> TRUE, bounced |-> FALSE]
         ELSE [p |-> p, bit |-> FALSE, bounced |-> FALSE]
    ELSE IF p.velocity_x > 0
         THEN [p |-> p, bit |-> TRUE, bounced |-> FALSE]
         ELSE IF p.velocity_x < 0
         THEN [p |-> [p EXCEPT !.velocity_x = -p.velocity_x], bit |-> FALSE, bounced |-> TRUE]
         ELSE [p |-> p, bit |-> FALSE, bounced |-> FALSE]

Untouched(m) == [p |-> m, judged |-> FALSE, bit |-> FALSE, bounced |-> FALSE]

\* Maxwell_Demon_POO_2D.py
move_2D(p) == move_y(move_x(p))

step_2D(p) ==
    LET m == move_2D(p)
    IN  IF InZone(m.x)
        THEN LET g == gate_POO(m)
             IN  [p |-> g.p, judged |-> TRUE, bit |-> g.bit, bounced |-> g.bounced]
        ELSE Untouched(m)

\* Maxwell_Demon_POO.py: one velocity, along x
move_POO(p) == move_x(p)

step_POO(p) ==
    LET m == move_POO(p)
    IN  IF InZone(m.x)
        THEN LET g == gate_POO(m)
             IN  [p |-> g.p, judged |-> TRUE, bit |-> g.bit, bounced |-> g.bounced]
        ELSE Untouched(m)

\* the zone 0.98 < x < 1.02 of the three scripts without classes
AtDoor(x) == 9800 < x /\ x < 10200

\* Max_DEMON.py: a let-through particle is pushed 0.04 across the door
step_Max_DEMON(p) ==
    LET m == move_x(p)
    IN  IF AtDoor(m.x)
        THEN IF m.x < 10000 /\ Abs(m.velocity_x) > 200
             THEN [p |-> [m EXCEPT !.x = m.x + 400], judged |-> TRUE,
                   bit |-> TRUE, bounced |-> FALSE]
             ELSE IF m.x > 10000 /\ Abs(m.velocity_x) < 200
             THEN [p |-> [m EXCEPT !.x = m.x - 400], judged |-> TRUE,
                   bit |-> TRUE, bounced |-> FALSE]
             ELSE [p |-> [m EXCEPT !.velocity_x = -m.velocity_x], judged |-> TRUE,
                   bit |-> FALSE, bounced |-> TRUE]
        ELSE Untouched(m)

\* MAXXXX.py: every speed other than 2 is let through
step_MAXXXX(p) ==
    LET m == move_x(p)
    IN  IF AtDoor(m.x)
        THEN IF Abs(m.velocity_x) # 200
             THEN [p |-> m, judged |-> TRUE, bit |-> TRUE, bounced |-> FALSE]
             ELSE [p |-> [m EXCEPT !.velocity_x = -m.velocity_x], judged |-> TRUE,
                   bit |-> FALSE, bounced |-> TRUE]
        ELSE Untouched(m)

\* Maxwell_demon_animated.py: x += velocity, reflection without clamping
step_animated(p) ==
    LET x1 == p.x + 100 * p.velocity_x
        m  == IF x1 < 0 \/ x1 > Lx
              THEN [p EXCEPT !.x = x1, !.velocity_x = -p.velocity_x]
              ELSE [p EXCEPT !.x = x1]
    IN  IF 9800 < m.x /\ m.x < 10000 /\ 200 < m.velocity_x /\ m.velocity_x < 400
        THEN [p |-> m, judged |-> TRUE, bit |-> TRUE, bounced |-> FALSE]
        ELSE Untouched(m)

Variants == {"energy", "poo2d", "poo", "max_demon", "maxxxx", "animated"}

step_of(var, p) ==
    CASE var = "energy"    -> step_energy(p)
      [] var = "poo2d"     -> step_2D(p)
      [] var = "poo"       -> step_POO(p)
      [] var = "max_demon" -> step_Max_DEMON(p)
      [] var = "maxxxx"    -> step_MAXXXX(p)
      [] var = "animated"  -> step_animated(p)

----------------------------------------------------------------------------
(* update *)

\* memory_bits.append(True)
append_bit(bits) == Append(bits, TRUE)

\* the log of an update before any particle has been looked at
NoLog(n) == [i \in 1..n |-> [judged |-> FALSE, bit |-> FALSE, bounced |-> FALSE]]

\* mutant: trapdoor_open is assigned by every iteration
accumulate_last_door(acc, i, r) ==
    [particles |-> [acc.particles EXCEPT ![i] = r.p],
     memory_bits |-> IF r.bit THEN append_bit(acc.memory_bits)
                     ELSE acc.memory_bits,
     trapdoor_open |-> r.bit,
     new_bits_added |-> acc.new_bits_added + (IF r.bit THEN 1 ELSE 0),
     log |-> [acc.log EXCEPT ![i] = [judged |-> r.judged, bit |-> r.bit,
                                     bounced |-> r.bounced]]]

\* what the iteration for particle i, with the result r, leaves in the
\* particle list, in self.memory_bits and in the locals of update
accumulate(acc, i, r) ==
    [particles |-> [acc.particles EXCEPT ![i] = r.p],
     memory_bits |-> IF r.bit THEN append_bit(acc.memory_bits)
                     ELSE acc.memory_bits,
     trapdoor_open |-> acc.trapdoor_open \/ r.bit,
     new_bits_added |-> acc.new_bits_added + (IF r.bit THEN 1 ELSE 0),
     log |-> [acc.log EXCEPT ![i] = [judged |-> r.judged, bit |-> r.bit,
                                     bounced |-> r.bounced]]]

\* the for loop over the particles, from index i on; acc carries the state
RECURSIVE loop(_, _, _)
loop(var, i, acc) ==
    IF i > Len(acc.particles) THEN acc
    ELSE loop(var, i + 1, accumulate(acc, i, step_of(var, acc.particles[i])))

\* mutant: the memory is emptied at the top of update, like new_bits_added
run_loop_fresh_memory(var) ==
    loop(var, 1, [particles |-> particles, memory_bits |-> <<>>,
                  trapdoor_open |-> FALSE, new_bits_added |-> 0,
                  log |-> NoLog(Len(particles))])

\* mutant: trapdoor_open is not reset at the top of update
run_loop_door_kept(var) ==
    loop(var, 1, [particles |-> particles, memory_bits |-> memory_bits,
                  trapdoor_open |-> trapdoor_open, new_bits_added |-> 0,
                  log |-> NoLog(Len(particles))])

run_loop(var) ==
    loop(var, 1, [particles |-> particles, memory_bits |-> memory_bits,
                  trapdoor_open |-> FALSE, new_bits_added |-> 0,
                  log |-> NoLog(Len(particles))])

\* what an update leaves in the history variables
Remember ==
    /\ prev' = [particles |-> particles, memory_bits |-> memory_bits,
                bit_history |-> bit_history, energy_cost |-> energy_cost]
    /\ visit' = [i \in 1..Len(particles) |->
                    NextVisit(visit[i], particles[i].x,
                              [p |-> particles'[i], judged |-> log'[i].judged,
                               bit |-> log'[i].bit, bounced |-> log'[i].bounced])]

\* the part of update that all six scripts share
Effects(out) ==
    /\ particles' = out.particles
    /\ memory_bits' = out.memory_bits
    /\ trapdoor_open' = out.trapdoor_open
    /\ log' = out.log
    /\ Remember
    /\ UNCHANGED <<variant, demon, start>>

\* one of the first MaxFrames calls of update
Frame(out) ==
    /\ frame < MaxFrames
    /\ Effects(out)
    /\ frame' = frame + 1

\* mutant: the energy of the bits of this frame instead of the total
record_energy_of_frame(out) ==
    IF out.new_bits_added > 0
    THEN LET total_bits == Len(out.memory_bits)
         IN  /\ bit_history' = Append(bit_history, total_bits)
             /\ energy_cost' = Append(energy_cost, out.new_bits_added * landauer_constant)
    ELSE UNCHANGED <<bit_history, energy_cost>>

\* mutant: a sample is recorded in every frame
record_energy_every_frame(out) ==
    LET total_bits == Len(out.memory_bits)
    IN  /\ bit_history' = Append(bit_history, total_bits)
        /\ energy_cost' = Append(energy_cost, total_bits * landauer_constant)

\* the energy plot data of Maxwell_Demon_POO_2D_energy.py
record_energy(out) ==
    IF out.new_bits_added > 0
    THEN LET total_bits == Len(out.memory_bits)
         IN  /\ bit_history' = Append(bit_history, total_bits)
             /\ energy_cost' = Append(energy_cost, total_bits * landauer_constant)
    ELSE UNCHANGED <<bit_history, energy_cost>>

update_energy ==
    /\ variant = "energy"
    /\ LET out == run_loop("energy") IN Frame(out) /\ record_energy(out)

\* update as the animation timer calls it, without end (the frame count saturates)
update_forever ==
    /\ variant = "energy"
    /\ LET out == run_loop("energy") IN Effects(out) /\ record_energy(out)
    /\ frame' = Min(frame + 1, MaxFrames)

update_2D ==
    /\ variant = "poo2d"
    /\ Frame(run_loop("poo2d"))
    /\ UNCHANGED <<bit_history, energy_cost>>

update_POO ==
    /\ variant = "poo"
    /\ Frame(run_loop("poo"))
    /\ UNCHANGED <<bit_history, energy_cost>>

update_Max_DEMON ==
    /\ variant = "max_demon"
    /\ Frame(run_loop("max_demon"))
    /\ UNCHANGED <<bit_history, energy_cost>>

update_MAXXXX ==
    /\ variant = "maxxxx"
    /\ Frame(run_loop("maxxxx"))
    /\ UNCHANGED <<bit_history, energy_cost>>

update_animated ==
    /\ variant = "animated"
    /\ Frame(run_loop("animated"))
    /\ UNCHANGED <<bit_history, energy_cost>>

----------------------------------------------------------------------------
(* Construction *)

\* initial values drawn for the first particle and for the others
InitX == {2000, 9400, 9500, 9700, 9900, 10000, 10100, 10200, 10500, 10600, 11700, 20000}
InitVx == {-2100, -1300, -800, -300, -100, 0, 100, 200, 300, 500, 800, 2100}
InitY == {-8000, 8000}
InitVy == {-2100, 0, 2100}
OtherX == {9500, 10400}
OtherVx == {-300, 100}

NewParticle(x, y, vx, vy) ==
    [x |-> x, y |-> y, velocity_x |-> vx, velocity_y |-> vy,
     cut_velocity |-> cut_velocity, processed |-> FALSE]

\* the energy script draws x from [0.2, 2.0], the others from [0.0, 2.0];
\* the scripts with one velocity have no velocity_y
FirstParticles(var) ==
    {NewParticle(x, y, vx, vy) :
        x \in (IF var = "energy" THEN InitX ELSE (InitX \ {2000}) \cup {0}),
        y \in InitY, vx \in InitVx,
        vy \in (IF var \in {"energy", "poo2d"} THEN InitVy ELSE {0})}

OtherParticles == {NewParticle(x, 0, vx, 0) : x \in OtherX, vx \in OtherVx}

\* the particle lists of length n
RECURSIVE ParticleLists(_, _)
ParticleLists(var, n) ==
    IF n = 1 THEN {<<p>> : p \in FirstParticles(var)}
    ELSE {Append(s, q) : s \in ParticleLists(var, n - 1), q \in OtherParticles}

\* the state after the constructor has run with the arguments n and cut:
\* range(n) is empty for n <= 0, every particle gets cut as its threshold
ConstructWith(var, n, cut, lists) ==
    /\ variant = var
    /\ demon = [n_particles |-> n, cut_velocity |-> cut]
    /\ particles \in lists
    /\ memory_bits = <<>>
    /\ bit_history = <<>>
    /\ energy_cost = <<>>
    /\ trapdoor_open = FALSE
    /\ frame = 0
    /\ start = particles
    /\ prev = [particles |-> particles, memory_bits |-> memory_bits,
               bit_history |-> bit_history, energy_cost |-> energy_cost]
    /\ log = NoLog(Len(particles))
    /\ visit = [i \in 1..Len(particles) |-> NoVisit]

\* the state after the script has built its particles
ConstructFrom(var, lists) ==
    \E n \in 1..MaxParticles :
        ConstructWith(var, n, cut_velocity, {s \in lists : Len(s) = n})

Construct(var) ==
    ConstructFrom(var, UNION {ParticleLists(var, n) : n \in 1..MaxParticles})

Init == \E var \in Variants : Construct(var)

Next ==
    \/ update_energy
    \/ update_2D
    \/ update_POO
    \/ update_Max_DEMON
    \/ update_MAXXXX
    \/ update_animated

Spec == Init /\ [][Next]_vars

InitEnergy == Construct("energy")

SpecEnergy == InitEnergy /\ [][update_energy]_vars

\* one particle in the energy script, updated for ever by the animation timer
LiveX == {2000, 9900, 15000}
LiveVx == {-2100, -527, -200, 0, 200, 300, 527, 2100}

InitLive ==
    ConstructFrom("energy", {<<NewParticle(x, 0, vx, 0)>> : x \in LiveX, vx \in LiveVx})

\* the per-particle work of one update of the energy script done in another
\* order: sched lists every particle index twice, the first occurrence is
\* particle.move(), the second the gate; moved holds the particles moved so far
RECURSIVE run_schedule(_, _, _, _)
run_schedule(sched, k, moved, acc) ==
    IF k > Len(sched) THEN acc
    ELSE LET i == sched[k]
         IN  IF i \notin moved
             THEN run_schedule(sched, k + 1, moved \cup {i},
                     [acc EXCEPT !.particles[i] = move_energy(acc.particles[i])])
             ELSE run_schedule(sched, k + 1, moved,
                     accumulate(acc, i, judge_energy(acc.particles[i])))

Schedules(n) ==
    {s \in [1..(2 * n) -> 1..n] :
        \A i \in 1..n : Cardinality({k \in 1..(2 * n) : s[k] = i}) = 2}

\* an update in the order sched, from the particle list ps and the memory bits
update_in_order(sched, ps, bits) ==
    run_schedule(sched, 1, {},
        [particles |-> ps, memory_bits |-> bits,
         trapdoor_open |-> FALSE, new_bits_added |-> 0,
         log |-> NoLog(Len(ps))])

\* particle lists for the order of the work: every particle can be turned
\* back, let through or left alone by the first updates
OrderX == {9400, 9700, 10600}
OrderVx == {-300, -100, 100, 300}

RECURSIVE OrderLists(_)
OrderLists(n) ==
    IF n = 0 THEN {<<>>}
    ELSE {Append(s, NewParticle(x, 0, vx, 0)) :
             s \in OrderLists(n - 1), x \in OrderX, vx \in OrderVx}

InitOrder ==
    ConstructFrom("energy", UNION {OrderLists(n) : n \in 1..MaxParticles})

SpecOrder == InitOrder /\ [][update_energy]_vars

\* two particles of a 2D script that start with the same x, velocity_x and
\* processed flag and with different y or velocity_y
TwinLists(var) ==
    {<<p, [p EXCEPT !.y = y, !.velocity_y = vy]>> :
        p \in FirstParticles(var), y \in InitY, vy \in InitVy}

InitTwin ==
    \E var \in {"energy", "poo2d"} :
        ConstructFrom(var, {s \in TwinLists(var) :
                               s[1].y # s[2].y \/ s[1].velocity_y # s[2].velocity_y})

SpecTwin == InitTwin /\ [][update_energy \/ update_2D]_vars

\* particles next to the dividing line and next to the ends of the zone,
\* with speeds up to just below 5
CrossX == {9501, 9999, 10000, 10498}
CrossVx == {-499, -300, -1, 1, 300, 499}

RECURSIVE CrossLists(_)
CrossLists(n) ==
    IF n = 0 THEN {<<>>}
    ELSE {Append(s, NewParticle(x, 0, vx, 0)) :
             s \in CrossLists(n - 1), x \in CrossX, vx \in CrossVx}

InitCross ==
    ConstructFrom("energy", UNION {CrossLists(n) : n \in 1..MaxParticles})

SpecCross == InitCross /\ [][update_energy]_vars

SpecLive == InitLive /\ [][update_forever]_vars /\ WF_vars(update_forever)

\* MaxwellDemon(n_particles, cut_velocity) called with any arguments
ArgParticles == -1..MaxParticles
ArgCut == {-100, 0, 200}

ArgLists(n, cut) ==
    IF n <= 0 THEN {<<>>}
    ELSE {[i \in 1..n |-> [s[i] EXCEPT !.cut_velocity = cut]] :
             s \in ParticleLists("energy", n)}

InitConstruct ==
    \E n \in ArgParticles, cut \in ArgCut :
        ConstructWith("energy", n, cut, ArgLists(n, cut))

SpecConstruct == InitConstruct /\ [][update_energy]_vars

----------------------------------------------------------------------------
(* Properties *)

Particles == 1..Len(particles)

\* velocity_x of particle i when the gate looked at it in the last update:
\* a judged particle is inside the zone, so no wall reflected it in that update
judged_velocity(i) == prev.particles[i].velocity_x

\* C1: a particle whose x is inside the zone 0.95 < x < 1.05 at the end of N
\* consecutive updates (N >= 1) has been judged by the gate in exactly one
\* of them, the first.
DebounceOnce ==
    \A i \in Particles :
        frame > 0 /\ InZone(particles[i].x) =>
            /\ visit[i].judged = 1
            /\ log[i].judged <=> visit[i].len = 1

\* a particle at the end of its MaxVisit-th consecutive update inside the zone
DebounceOnceWitness ==
    \E i \in Particles :
        /\ InZone(particles[i].x)
        /\ visit[i].len = MaxVisit
        /\ ~log[i].judged
        /\ particles[i].velocity_x # 0

\* C2: in every script, the bit count after an update is at least the bit
\* count before it, and the bits that were there are still there.
BitMonotone ==
    /\ Len(memory_bits) >= Len(prev.memory_bits)
    /\ SubSeq(memory_bits, 1, Len(prev.memory_bits)) = prev.memory_bits

\* an update that bounces a particle and adds no bit to a memory that holds two
BitMonotoneWitness ==
    /\ Len(prev.memory_bits) >= 2
    /\ Len(memory_bits) = Len(prev.memory_bits)
    /\ \E i \in Particles : log[i].bounced

\* C3: every sample of the energy history is its bit count times ln 2, and
\* the last sample's bit count is the current bit count.
EnergyConsistent ==
    /\ Len(energy_cost) = Len(bit_history)
    /\ \A k \in 1..Len(bit_history) : energy_cost[k] = bit_history[k] * landauer_constant
    /\ Len(bit_history) > 0 => bit_history[Len(bit_history)] = Len(memory_bits)

\* two samples have been recorded, the second by the last update
EnergyConsistentWitness ==
    /\ Len(bit_history) >= 2
    /\ Len(memory_bits) > Len(prev.memory_bits)

\* C4: a particle with nonzero velocity_x that the gate judges gets the
\* outcome of the decision table: fast and moving right, or slow and moving
\* left: velocity_x negated and no bit; fast and moving left, or slow and
\* moving right: velocity_x unchanged and exactly one bit.
DecisionTable ==
    /\ \A i \in Particles :
          LET v0   == judged_velocity(i)
              v1   == particles[i].velocity_x
              fast == Abs(v0) > cut_velocity
          IN  log[i].judged /\ v0 # 0 =>
                 IF (fast /\ v0 > 0) \/ (~fast /\ v0 < 0)
                 THEN v1 = -v0 /\ ~log[i].bit /\ log[i].bounced
                 ELSE v1 = v0 /\ log[i].bit /\ ~log[i].bounced
    /\ Len(memory_bits) = Len(prev.memory_bits) + Cardinality({i \in Particles : log[i].bit})

\* in one update the gate bounces a slow particle and lets a fast one through
DecisionTableWitness ==
    \E i, j \in Particles :
        /\ log[i].judged /\ Abs(judged_velocity(i)) <= cut_velocity
        /\ judged_velocity(i) < 0 /\ log[i].bounced
        /\ log[j].judged /\ Abs(judged_velocity(j)) > cut_velocity
        /\ judged_velocity(j) < 0 /\ log[j].bit

\* C5: in the two clamping scripts every particle is inside the box,
\* 0 <= x <= 2 and -1 <= y <= 1, initially and after every update.
BoundaryContainment ==
    variant \in {"energy", "poo2d"} =>
        \A i \in Particles :
            /\ 0 <= particles[i].x /\ particles[i].x <= Lx
            /\ -Ly <= particles[i].y /\ particles[i].y <= Ly

\* a particle that the last update clamped at an x wall and at a y wall
BoundaryContainmentWitness ==
    /\ variant = "poo2d"
    /\ \E i \in Particles :
          /\ prev.particles[i].x + prev.particles[i].velocity_x > Lx
          /\ particles[i].x = Lx
          /\ prev.particles[i].y + prev.particles[i].velocity_y < -Ly
          /\ particles[i].y = -Ly

\* C6: a particle that the gate let through has crossed the line x = 1 in
\* the course of the same stay inside the zone, by the time it has left the
\* zone; from every initial state, also for a particle that starts inside
\* the zone.
PassedCrosses ==
    \A i \in Particles :
        visit[i].done /\ visit[i].passed => visit[i].crossed

\* C7: a fast particle that the gate has bounced is at x < 1 at the end of
\* the update that bounced it and of every later update of the same stay
\* inside the zone.
BouncedFastStaysLeft ==
    \A i \in Particles :
        visit[i].bouncedFast /\ ~visit[i].done => particles[i].x < Divider

\* is particle i in its sorted chamber: slow in B (x >= 1), fast in A (x < 1)
Sorted(i) ==
    IF is_fast(particles[i]) THEN particles[i].x < Divider
    ELSE particles[i].x >= Divider

\* C8: every particle with nonzero velocity_x eventually reaches its sorted
\* chamber and is there at the end of every later update.
EventuallySorted ==
    <>[](\A i \in Particles : particles[i].velocity_x # 0 => Sorted(i))

\* the state after construction of the scenario of C9: one particle at
\* x = 1.01 with velocity_x = -1.0
SlowScenario ==
    /\ variant = "energy"
    /\ Len(start) = 1
    /\ start[1].x = 10100
    /\ start[1].velocity_x = -100

\* C9, as claimed: one update classifies the particle of the scenario Slow
\* and lets it through: the gate opens, one bit is added, and the
\* cumulative energy goes from 0 to ln 2.
SlowScenarioLetThrough ==
    SlowScenario /\ frame = 1 =>
        /\ ~is_fast(particles[1])
        /\ trapdoor_open
        /\ Len(memory_bits) = Len(prev.memory_bits) + 1
        /\ energy_cost = <<landauer_constant>>

\* C9, amended: one update classifies the particle of the scenario Slow and
\* bounces it: velocity_x becomes +1.0, the gate stays closed, no bit is
\* added and no energy is recorded.
SlowScenarioBounced ==
    SlowScenario /\ frame = 1 =>
        /\ ~is_fast(particles[1])
        /\ log[1].judged /\ log[1].bounced
        /\ particles[1].x = 10000
        /\ particles[1].velocity_x = 100
        /\ particles[1].processed
        /\ ~trapdoor_open
        /\ memory_bits = prev.memory_bits
        /\ memory_bits = <<>>
        /\ bit_history = <<>>
        /\ energy_cost = <<>>

\* the scenario of C9 after its one update
SlowScenarioWitness == SlowScenario /\ frame = 1 /\ log[1].judged

\* the state after construction of the scenario of C10: one particle at
\* x = 0.99 with velocity_x = 3.0
FastScenario ==
    /\ variant = "energy"
    /\ Len(start) = 1
    /\ start[1].x = 9900
    /\ start[1].velocity_x = 300

\* C10: the first update classifies the particle of the scenario Fast and
\* bounces it: velocity_x becomes -3.0, no bit is added, and x is below 1 at
\* the end of that update and of every later update of that stay in the zone.
FastScenarioStaysLeft ==
    FastScenario =>
        /\ frame = 1 =>
              /\ is_fast(particles[1])
              /\ log[1].judged /\ log[1].bounced
              /\ particles[1].velocity_x = -300
              /\ memory_bits = <<>>
        /\ frame >= 1 /\ visit[1].bouncedFast /\ ~visit[1].done =>
              particles[1].x < Divider


\* C11: a particle of the energy script with velocity_x = 0 inside the zone
\* is never bounced and never gets a bit, and its processed flag is False at
\* the end of every update for as long as velocity_x is 0 and it is in the
\* zone.
StationaryUnprocessed ==
    variant = "energy" =>
        \A i \in Particles :
            /\ frame > 0
            /\ prev.particles[i].velocity_x = 0
            /\ InZone(prev.particles[i].x)
            =>  /\ particles[i].velocity_x = 0
                /\ ~log[i].bit
                /\ ~particles[i].processed


\* C12: the history of the energy script is append-only and sparse: an
\* update that changed the bit count appends exactly one sample, the total
\* after the update with its energy, and an update that did not appends
\* nothing; earlier samples stay as they were and the recorded bit counts
\* are strictly increasing.
HistorySparse ==
    variant = "energy" =>
        /\ IF Len(memory_bits) # Len(prev.memory_bits)
           THEN /\ bit_history = Append(prev.bit_history, Len(memory_bits))
                /\ energy_cost = Append(prev.energy_cost,
                                        Len(memory_bits) * landauer_constant)
           ELSE /\ bit_history = prev.bit_history
                /\ energy_cost = prev.energy_cost
        /\ \A k \in 1..(Len(bit_history) - 1) : bit_history[k] < bit_history[k + 1]

\* an update that let two particles through and recorded one sample for both
HistorySparseWitness ==
    /\ variant = "energy"
    /\ Len(memory_bits) = Len(prev.memory_bits) + 2
    /\ Len(bit_history) = Len(prev.bit_history) + 1


\* C13: in every variant trapdoor_open at the end of an update is true if
\* and only if some particle was let through in that update, that is if and
\* only if the bit count grew during it; the flag of an earlier update does
\* not carry over.
TrapdoorIffBit ==
    frame > 0 =>
        /\ trapdoor_open <=> (\E i \in Particles : log[i].bit)
        /\ trapdoor_open <=> (Len(memory_bits) > Len(prev.memory_bits))

\* an update that let nobody through, right after bits had been stored
TrapdoorIffBitWitness ==
    /\ frame > 1
    /\ ~trapdoor_open
    /\ Len(prev.memory_bits) > 0
    /\ Len(memory_bits) = Len(prev.memory_bits)
    /\ \E i \in Particles : log[i].bounced


\* C14: MaxwellDemon(n_particles, cut_velocity) with n_particles <= 0 or
\* cut_velocity <= 0 is rejected: no simulation with these arguments ever
\* holds particles, a ledger or a step.
InvalidArguments == demon.n_particles <= 0 \/ demon.cut_velocity <= 0

ConfigurationRejected ==
    InvalidArguments =>
        /\ particles = <<>>
        /\ memory_bits = <<>>
        /\ frame = 0


\* C15: in Maxwell_Demon_POO_2D.py and Maxwell_Demon_POO.py a particle adds
\* at most one entry to memory_bits over one contiguous stay inside the zone
\* 0.95 < x < 1.05, however many updates the stay lasts.
OneBitPerStay ==
    variant \in {"poo2d", "poo"} =>
        \A i \in Particles : visit[i].bits <= 1


\* C16: the result of an update of the energy script does not depend on the
\* order of the per-particle work: whatever the order, and however the
\* move-then-judge work of different particles is interleaved, the update
\* leaves the same positions, velocities and processed flags, the same
\* trapdoor_open and the same bit count as the for loop does, and every
\* particle that was let through has added exactly one bit.
LetThrough(out) == {i \in Particles : out.log[i].bit}

OrderIndependent ==
    variant = "energy" /\ frame > 0 =>
        \A sched \in Schedules(Len(particles)) :
            LET alt == update_in_order(sched, prev.particles, prev.memory_bits)
            IN  /\ alt.particles = particles
                /\ alt.trapdoor_open = trapdoor_open
                /\ Len(alt.memory_bits) = Len(memory_bits)
                /\ alt.log = log
                /\ Len(alt.memory_bits)
                     = Len(prev.memory_bits) + Cardinality(LetThrough(alt))

\* an update that let two particles through
OrderIndependentWitness ==
    /\ variant = "energy"
    /\ Len(particles) = 2
    /\ frame > 0
    /\ log[1].bit
    /\ log[2].bit
    /\ Len(memory_bits) = Len(prev.memory_bits) + 2

\* C17: in the two 2D scripts classification and gating use the x axis only:
\* two particles that start with the same x, velocity_x and processed flag
\* and different y or velocity_y have, after every update, the same x,
\* velocity_x, processed flag and classification, got the same decision of
\* the gate, and added the same number of bits.
SameAlongX(p, q) ==
    /\ p.x = q.x
    /\ p.velocity_x = q.velocity_x
    /\ p.processed = q.processed
    /\ p.cut_velocity = q.cut_velocity

Twins == Len(start) = 2 /\ SameAlongX(start[1], start[2])

XAxisOnly ==
    variant \in {"energy", "poo2d"} /\ Twins =>
        /\ SameAlongX(particles[1], particles[2])
        /\ is_fast(particles[1]) <=> is_fast(particles[2])
        /\ log[1] = log[2]
        /\ frame > 0 => (trapdoor_open <=> log[1].bit)
        /\ Len(memory_bits) - Len(prev.memory_bits)
             = (IF log[1].bit THEN 1 ELSE 0) + (IF log[2].bit THEN 1 ELSE 0)

\* twins of which one was just reflected by a y wall and the other not,
\* while the gate let both through
XAxisOnlyWitness ==
    /\ variant \in {"energy", "poo2d"}
    /\ Twins
    /\ frame > 0
    /\ particles[1].velocity_y # prev.particles[1].velocity_y
    /\ particles[2].velocity_y = prev.particles[2].velocity_y
    /\ particles[1].y # particles[2].y
    /\ log[1].bit
    /\ log[2].bit


\* C18, as stated: the zone is the closed interval [0.95, 1.05]: an
\* unprocessed particle of the energy script whose x after the move is
\* exactly 0.95 or exactly 1.05 is judged by the gate in that update.
OnZoneEdge(i) == particles[i].x \in {ZoneLo, ZoneHi}

ZoneClosed ==
    variant = "energy" =>
        \A i \in Particles :
            frame > 0 /\ OnZoneEdge(i) /\ ~prev.particles[i].processed
                => log[i].judged

\* C18, amended: the zone is the open interval 0.95 < x < 1.05: a particle
\* whose x after the move is exactly 0.95 or exactly 1.05 is outside the
\* zone, it is not judged in that update and its processed flag is False
\* after it; an unprocessed particle whose x after the move is strictly
\* between 0.95 and 1.05 is judged.
ZoneOpen ==
    variant = "energy" =>
        \A i \in Particles :
            frame > 0 =>
                /\ OnZoneEdge(i) =>
                      /\ ~log[i].judged
                      /\ ~log[i].bit
                      /\ ~log[i].bounced
                      /\ ~particles[i].processed
                      /\ particles[i].velocity_x = prev.particles[i].velocity_x
                /\ (ZoneLo < particles[i].x /\ particles[i].x < ZoneHi
                        /\ ~prev.particles[i].processed) => log[i].judged

\* an unprocessed particle that has just moved onto an end point of the zone
ZoneOpenWitness ==
    /\ variant = "energy"
    /\ frame > 0
    /\ \E i \in Particles :
          /\ OnZoneEdge(i)
          /\ prev.particles[i].x # particles[i].x
          /\ ~prev.particles[i].processed
          /\ ~log[i].judged


\* C19: in Maxwell_demon_animated.py no position escapes the box: after
\* every update every particle's position lies within [0, 2].
AnimatedInBox ==
    variant = "animated" /\ frame > 0 =>
        \A i \in Particles : 0 <= particles[i].x /\ particles[i].x <= Lx

\* C20: in Max_DEMON.py a particle that is in chamber A (x < 1) at the
\* start of an update and in chamber B (x >= 1) at its end is fast
\* (|velocity| > 2), and one that goes from B to A is slow (|velocity| < 2).
ChamberChangeSorted ==
    variant = "max_demon" /\ frame > 0 =>
        \A i \in Particles :
            LET x0 == prev.particles[i].x
                x1 == particles[i].x
                v  == particles[i].velocity_x
            IN  /\ (x0 < Divider /\ x1 >= Divider) => Abs(v) > cut_velocity
                /\ (x0 >= Divider /\ x1 < Divider) => Abs(v) < cut_velocity


\* C21: every operation of the energy script preserves each particle's
\* |velocity_x| and |velocity_y|: walls and gate only negate a component,
\* so after any number of updates each particle is classified fast or slow
\* as it was after construction.
SpeedPreserved ==
    variant = "energy" =>
        \A i \in Particles :
            /\ Abs(particles[i].velocity_x) = Abs(start[i].velocity_x)
            /\ Abs(particles[i].velocity_y) = Abs(start[i].velocity_y)
            /\ particles[i].cut_velocity = start[i].cut_velocity
            /\ is_fast(particles[i]) <=> is_fast(start[i])

\* a fast particle that the gate has just bounced, with velocity_x and
\* velocity_y both opposite to what they were after construction
SpeedPreservedWitness ==
    /\ variant = "energy"
    /\ \E i \in Particles :
          /\ log[i].bounced
          /\ is_fast(particles[i])
          /\ particles[i].velocity_x = -start[i].velocity_x
          /\ particles[i].velocity_y = -start[i].velocity_y
          /\ particles[i].velocity_y # 0


\* C22: at the end of every update of the energy script a particle's
\* processed flag is True if and only if its x is strictly inside the zone
\* 0.95 < x < 1.05; a particle inside the zone with processed False exists
\* only before the first update.
ProcessedIffInZone ==
    variant = "energy" =>
        \A i \in Particles :
            /\ frame > 0 => (particles[i].processed <=> InZone(particles[i].x))
            /\ (InZone(particles[i].x) /\ ~particles[i].processed) => frame = 0

\* a particle that was processed has just left the zone and lost the flag,
\* while another one has just entered it
ProcessedIffInZoneWitness ==
    /\ variant = "energy"
    /\ frame > 0
    /\ \E i, j \in Particles :
          /\ prev.particles[i].processed
          /\ ~InZone(particles[i].x)
          /\ ~particles[i].processed
          /\ ~prev.particles[j].processed
          /\ ~InZone(prev.particles[j].x)
          /\ particles[j].processed


\* C23: in the energy script no particle with |velocity_x| < 5 changes
\* chamber unseen: whenever its x is on one side of the dividing line x = 1
\* before an update and on the other side after it, the particle is inside
\* the zone 0.95 < x < 1.05 at the end of that update and the gate has
\* judged it during its current stay in the zone.
\* half the width of the zone per update, as a velocity
SpeedLimit == ZoneHi - Divider

ChangedChamber(i) ==
    (prev.particles[i].x < Divider) # (particles[i].x < Divider)

NoUnseenCrossing ==
    variant = "energy" /\ frame > 0 =>
        \A i \in Particles :
            Abs(prev.particles[i].velocity_x) < SpeedLimit /\ ChangedChamber(i)
                =>  /\ InZone(particles[i].x)
                    /\ particles[i].processed
                    /\ ~visit[i].done
                    /\ visit[i].len >= 1
                    /\ visit[i].judged >= 1
                    /\ visit[i].crossed

\* a particle at speed 4.99 that has just changed chamber in an update in
\* which the gate did not look at it, after the gate judged it earlier in
\* the same stay
NoUnseenCrossingWitness ==
    /\ variant = "energy"
    /\ frame > 1
    /\ \E i \in Particles :
          /\ Abs(prev.particles[i].velocity_x) = SpeedLimit - 1
          /\ ChangedChamber(i)
          /\ ~log[i].judged
          /\ visit[i].judged = 1

====
